---------------------------- MODULE Spec2Model ----------------------------
(***************************************************************************)
(* Model of the bare-metal branch-predictor workloads of 4-soc/csrc:       *)
(* aliasing.c, bubblesort.c, complex.c, factorial.c, fibonacci.c and       *)
(* pattern.c.  Each image is a single-threaded, run-to-completion main     *)
(* that ends by storing to the memory-mapped words 0x4 (result), 0x104     *)
(* (status) and 0x100 (completion magic).                                  *)
(*                                                                         *)
(* One behaviour of the model is one run of one image (variable prog), or  *)
(* one call of a function of an image on drawn arguments (the unit modes   *)
(* "mul" and "loop").  An action is one source-level step: one loop test,  *)
(* one loop body, one call, one return or one volatile store.              *)
(*                                                                         *)
(* int is the 32-bit two's complement int of RV32: values are the integers *)
(* MinInt..MaxInt and arithmetic that can leave that range wraps modulo    *)
(* 2^32 (Add32, Shl1), which is what the RV32I add and slli instructions   *)
(* the compiler emits for them compute.                                    *)
(***************************************************************************)
EXTENDS Integers, Sequences, FiniteSets, TLC

---------------------------------------------------------------------------
(* 32-bit integers *)

MaxInt == 2147483647
MinInt == -2147483647 - 1

\* x + y in 32-bit two's complement (wraps modulo 2^32); no intermediate
\* value leaves MinInt..MaxInt.
Add32(x, y) ==
    IF x >= 0 /\ y >= 0
    THEN IF x > MaxInt - y THEN ((x - MaxInt) - 1) + ((y - MaxInt) - 1) ELSE x + y
    ELSE IF x < 0 /\ y < 0
         THEN IF x < MinInt - y THEN ((x + MaxInt) + 1) + ((y + MaxInt) + 1) ELSE x + y
         ELSE x + y

\* a << 1 on a 32-bit register: the top bit is shifted out.
Shl1(x) == Add32(x, x)

\* The two unsigned 16-bit halves of the 32-bit pattern of x, and back.
Hi16(x) == (x \div 65536) % 65536
Lo16(x) == x % 65536
FromHalves(hi, lo) ==
    IF hi >= 32768 THEN (hi - 65536) * 65536 + lo ELSE hi * 65536 + lo

---------------------------------------------------------------------------
(* Memory-mapped words and the values main stores to them *)

RESULT_ADDR == 4
DONE_ADDR   == 256
STATUS_ADDR == 260
STATUS_PASS == 15
STATUS_FAIL == 1
\* 0xCAFEF00D converted to int.
MAGIC == FromHalves(51966, 61453)

---------------------------------------------------------------------------
(* Bounds of the unit modes and of the drawn array *)

\* mul is called on a, b drawn from -MaxSmall..MaxSmall, from the MaxSmall+1
\* values at each end of the int range, and from a few powers of two.
MaxSmall == 2
\* loop_a..loop_d are called on n in 0..MaxLoopN.
MaxLoopN == 12
\* bubblesort is run on every array of at most MaxSize elements over the
\* values -MaxVal..MaxVal, and on MaxSeed+1 arrays of SIZE elements.
MaxSize == 4
MaxVal  == 1
MaxSeed == 2

---------------------------------------------------------------------------
(* Program constants *)

ITERATIONS == 100
ARG_PHASE1 == 10
ARG_PHASE2 == 8
SIZE       == 50
OUTER      == 50
INNER      == 20
SEQ_CALLS  == 10
SEQ_ARG    == 32
FUNC_CALLS == 30
FUNC_ARG   == 8
FACT_ARG   == 5
FIB_ARG    == 20
PATTERN_ITERS == 100
PATTERN_PERIOD == 3

Programs == {"aliasing", "bubblesort", "complex", "factorial", "fibonacci", "pattern"}
UnitModes == {"mul", "loop"}

VARIABLES
    prog,        \* the image that runs, or the unit mode
    pc,          \* position in the source
    phase,       \* aliasing/complex main: which of its loops it is in
    stores,      \* the stores to memory-mapped words so far: <<address, value>>
    result,      \* main's result (factorial's result in factorial.c)
    i,           \* loop index of main (of factorial, of verify)
    slot,        \* aliasing/complex main: number of calls made in this iteration
    fn,          \* the function being executed
    n,           \* its argument n
    ci,          \* its loop index i
    j, k,        \* inner loop indices (correlated_loops, bubblesort)
    sum,         \* its accumulator sum
    state,       \* pattern.c: the rotating counter
    a, b,        \* mul: its parameters, as the loop changes them
    mul_result,  \* mul: its local result
    arg_a, arg_b,\* mul: the arguments of the call
    arr,         \* bubblesort.c: data, indexed 0..n-1
    data0,       \* bubblesort.c: data as initialised
    temp,        \* bubblesort.c: bubblesort's temp, <<>> until assigned
    vres,        \* bubblesort.c: what verify returned
    stack,       \* fibonacci.c: the frames of fib, innermost last
    ret          \* fibonacci.c: the value the last return delivered

vars == <<prog, pc, phase, stores, result, i, slot, fn, n, ci, j, k, sum, state,
          a, b, mul_result, arg_a, arg_b, arr, data0, temp, vres, stack, ret>>

\* A volatile (or plain, in factorial.c and fibonacci.c) store of a word.
Store(addr, val) == stores' = Append(stores, <<addr, val>>)

---------------------------------------------------------------------------
(* factorial.c *)

\* MulStep with a shifted before it is added.
MulStep_ShiftFirst ==
    /\ pc = "mul_loop"
    /\ b > 0
    /\ mul_result' = IF b % 2 = 1 THEN Add32(mul_result, Shl1(a)) ELSE mul_result
    /\ a' = Shl1(a)
    /\ b' = b \div 2
    /\ UNCHANGED <<prog, phase, pc, stores, result, i, slot, fn, n, ci, j, k, sum,
                   state, arg_a, arg_b, arr, data0, vres, temp, stack, ret>>

\* One pass of mul's while loop: if (b & 1) result += a; a <<= 1; b >>= 1;
MulStep ==
    /\ pc = "mul_loop"
    /\ b > 0
    /\ mul_result' = IF b % 2 = 1 THEN Add32(mul_result, a) ELSE mul_result
    /\ a' = Shl1(a)
    /\ b' = b \div 2
    /\ UNCHANGED <<prog, phase, pc, stores, result, i, slot, fn, n, ci, j, k,
                   sum, state,
                   arg_a, arg_b, arr, data0, vres, temp, stack, ret>>

\* mul returns result: to factorial's loop, which assigns it and steps i, or
\* to the caller of the unit mode.
MulReturn ==
    /\ pc = "mul_loop"
    /\ ~(b > 0)
    /\ IF prog = "factorial"
       THEN /\ result' = mul_result
            /\ i' = i + 1
            /\ pc' = "fact_loop"
       ELSE /\ pc' = "halt"
            /\ UNCHANGED <<result, i>>
    /\ UNCHANGED <<prog, phase, stores, slot, fn, n, ci, j, k, sum, state, a, b,
                   mul_result, arg_a, arg_b, arr, data0, vres, temp, stack, ret>>

\* FactContinue with i < n: the last factor is left out.
FactContinue_Strict(x, m) == x < m

\* The test of factorial's for loop: i <= n.
FactContinue(x, m) == x <= m

\* factorial's for loop: while i <= n call mul(result, i).
FactCall ==
    /\ prog = "factorial"
    /\ pc = "fact_loop"
    /\ FactContinue(i, n)
    /\ a' = result /\ b' = i
    /\ arg_a' = result /\ arg_b' = i
    /\ mul_result' = 0
    /\ pc' = "mul_loop"
    /\ UNCHANGED <<prog, phase, stores, result, i, slot, fn, n, ci, j, k, sum,
                   state,
                   arr, data0, vres, temp, stack, ret>>

\* factorial returns result, which main stores to address 4.
FactStoreResult ==
    /\ prog = "factorial"
    /\ pc = "fact_loop"
    /\ ~FactContinue(i, n)
    /\ Store(RESULT_ADDR, result)
    /\ pc' = "store_status"
    /\ UNCHANGED <<prog, phase, result, i, slot, fn, n, ci, j, k, sum, state, a,
                   b,
                   mul_result, arg_a, arg_b, arr, data0, vres, temp, stack, ret>>

FactStoreStatus ==
    /\ prog = "factorial"
    /\ pc = "store_status"
    /\ Store(STATUS_ADDR, STATUS_PASS)
    /\ pc' = "store_magic"
    /\ UNCHANGED <<prog, phase, result, i, slot, fn, n, ci, j, k, sum, state, a,
                   b,
                   mul_result, arg_a, arg_b, arr, data0, vres, temp, stack, ret>>

FactStoreMagic ==
    /\ prog = "factorial"
    /\ pc = "store_magic"
    /\ Store(DONE_ADDR, MAGIC)
    /\ pc' = "halt"
    /\ UNCHANGED <<prog, phase, result, i, slot, fn, n, ci, j, k, sum, state, a,
                   b,
                   mul_result, arg_a, arg_b, arr, data0, vres, temp, stack, ret>>

---------------------------------------------------------------------------
(* fibonacci.c *)

\* A frame of fib: its argument n, where it stands (at its entry, in the call
\* fib(n - 1), in the call fib(n - 2)) and the value of fib(n - 1) once known.
\* The operands of + are evaluated left to right; fib has no side effect, so
\* the other order computes the same values.
Frame(m, st, t) == [n |-> m, st |-> st, t |-> t]
Top(s) == s[Len(s)]
Pop(s) == SubSeq(s, 1, Len(s) - 1)

\* FibBase with the base case fib(0) = fib(1) = 1.
FibBase_One ==
    /\ pc = "fib_run"
    /\ Top(stack).n <= 1
    /\ ret' = 1
    /\ stack' = Pop(stack)
    /\ pc' = "fib_ret"
    /\ UNCHANGED <<prog, phase, stores, result, i, slot, fn, n, ci, j, k, sum,
                   state,
                   a, b, mul_result, arg_a, arg_b, arr, data0, vres, temp>>

\* if (n <= 1) return n;
FibBase ==
    /\ pc = "fib_run"
    /\ Top(stack).n <= 1
    /\ ret' = Top(stack).n
    /\ stack' = Pop(stack)
    /\ pc' = "fib_ret"
    /\ UNCHANGED <<prog, phase, stores, result, i, slot, fn, n, ci, j, k, sum,
                   state,
                   a, b, mul_result, arg_a, arg_b, arr, data0, vres, temp>>

\* n > 1: the call fib(n - 1).
FibCall1 ==
    /\ pc = "fib_run"
    /\ ~(Top(stack).n <= 1)
    /\ stack' = Append(Append(Pop(stack), Frame(Top(stack).n, "call1", 0)),
                       Frame(Top(stack).n - 1, "entry", 0))
    /\ UNCHANGED <<prog, phase, pc, stores, result, i, slot, fn, n, ci, j, k,
                   sum, state,
                   a, b, mul_result, arg_a, arg_b, arr, data0, vres, temp, ret>>

\* fib(n - 1) has returned: keep its value and call fib(n - 2).
FibCall2 ==
    /\ pc = "fib_ret"
    /\ stack # <<>>
    /\ Top(stack).st = "call1"
    /\ stack' = Append(Append(Pop(stack), Frame(Top(stack).n, "call2", ret)),
                       Frame(Top(stack).n - 2, "entry", 0))
    /\ pc' = "fib_run"
    /\ UNCHANGED <<prog, phase, stores, result, i, slot, fn, n, ci, j, k, sum,
                   state,
                   a, b, mul_result, arg_a, arg_b, arr, data0, vres, temp, ret>>

\* fib(n - 2) has returned: return fib(n - 1) + fib(n - 2).
FibReturn ==
    /\ pc = "fib_ret"
    /\ stack # <<>>
    /\ Top(stack).st = "call2"
    /\ ret' = Add32(Top(stack).t, ret)
    /\ stack' = Pop(stack)
    /\ UNCHANGED <<prog, phase, pc, stores, result, i, slot, fn, n, ci, j, k,
                   sum, state,
                   a, b, mul_result, arg_a, arg_b, arr, data0, vres, temp>>

\* FibStoreResult with the plain store to address 4 moved below the volatile
\* store of the status.
FibStoreResult_AfterStatus ==
    /\ prog = "fibonacci"
    /\ pc = "fib_ret"
    /\ stack = <<>>
    /\ stores' = Append(Append(stores, <<STATUS_ADDR, STATUS_PASS>>),
                        <<RESULT_ADDR, ret>>)
    /\ pc' = "store_magic"
    /\ UNCHANGED <<prog, phase, result, i, slot, fn, n, ci, j, k, sum, state, a,
                   b,
                   mul_result, arg_a, arg_b, arr, data0, vres, temp, stack, ret>>

\* The outermost call has returned to main, which stores its value to address 4.
FibStoreResult ==
    /\ prog = "fibonacci"
    /\ pc = "fib_ret"
    /\ stack = <<>>
    /\ Store(RESULT_ADDR, ret)
    /\ pc' = "store_status"
    /\ UNCHANGED <<prog, phase, result, i, slot, fn, n, ci, j, k, sum, state, a,
                   b,
                   mul_result, arg_a, arg_b, arr, data0, vres, temp, stack, ret>>

FibStoreStatus ==
    /\ prog = "fibonacci"
    /\ pc = "store_status"
    /\ Store(STATUS_ADDR, STATUS_PASS)
    /\ pc' = "store_magic"
    /\ UNCHANGED <<prog, phase, result, i, slot, fn, n, ci, j, k, sum, state, a,
                   b,
                   mul_result, arg_a, arg_b, arr, data0, vres, temp, stack, ret>>

FibStoreMagic ==
    /\ prog = "fibonacci"
    /\ pc = "store_magic"
    /\ Store(DONE_ADDR, MAGIC)
    /\ pc' = "halt"
    /\ UNCHANGED <<prog, phase, result, i, slot, fn, n, ci, j, k, sum, state, a,
                   b,
                   mul_result, arg_a, arg_b, arr, data0, vres, temp, stack, ret>>

---------------------------------------------------------------------------
(* pattern.c *)

\* Advance with the test made before the increment: state reaches 3.
Advance_TestFirst(st) == IF st = PATTERN_PERIOD THEN 0 ELSE st + 1

\* state++; if (state == 3) state = 0;
Advance(st) == IF st + 1 = PATTERN_PERIOD THEN 0 ELSE st + 1

\* for (i = 0; i < 100; ...) { state++; if (state == 3) state = 0; ...
PatternAdvance ==
    /\ prog = "pattern"
    /\ pc = "pat_loop"
    /\ i < PATTERN_ITERS
    /\ state' = Advance(state)
    /\ pc' = "pat_branch"
    /\ UNCHANGED <<prog, phase, stores, result, i, slot, fn, n, ci, j, k, sum,
                   a, b, mul_result, arg_a, arg_b, arr, data0, vres, temp, stack, ret>>

\* The branch if (state != 0), taken when its condition holds.
BranchTaken(st) == st # 0

\* ... if (state != 0) result++; } and the loop's i++.
PatternBranch ==
    /\ prog = "pattern"
    /\ pc = "pat_branch"
    /\ result' = IF BranchTaken(state) THEN result + 1 ELSE result
    /\ i' = i + 1
    /\ pc' = "pat_loop"
    /\ UNCHANGED <<prog, phase, stores, slot, fn, n, ci, j, k, sum, state,
                   a, b, mul_result, arg_a, arg_b, arr, data0, vres, temp, stack, ret>>

PatternStoreResult ==
    /\ prog = "pattern"
    /\ pc = "pat_loop"
    /\ ~(i < PATTERN_ITERS)
    /\ Store(RESULT_ADDR, result)
    /\ pc' = "store_status"
    /\ UNCHANGED <<prog, phase, result, i, slot, fn, n, ci, j, k, sum, state, a,
                   b,
                   mul_result, arg_a, arg_b, arr, data0, vres, temp, stack, ret>>

PatternStoreStatus ==
    /\ prog = "pattern"
    /\ pc = "store_status"
    /\ Store(STATUS_ADDR, STATUS_PASS)
    /\ pc' = "store_magic"
    /\ UNCHANGED <<prog, phase, result, i, slot, fn, n, ci, j, k, sum, state, a,
                   b,
                   mul_result, arg_a, arg_b, arr, data0, vres, temp, stack, ret>>

PatternStoreMagic ==
    /\ prog = "pattern"
    /\ pc = "store_magic"
    /\ Store(DONE_ADDR, MAGIC)
    /\ pc' = "halt"
    /\ UNCHANGED <<prog, phase, result, i, slot, fn, n, ci, j, k, sum, state, a,
                   b,
                   mul_result, arg_a, arg_b, arr, data0, vres, temp, stack, ret>>

---------------------------------------------------------------------------
(* aliasing.c *)

\* K with loop_c left with the constant of loop_b.
K_CopyPaste(f) == CASE f = "loop_a" -> 1
                    [] f = "loop_b" -> 2
                    [] f = "loop_c" -> 2
                    [] f = "loop_d" -> 4

\* The constant of each loop function: sum += i * K.
K(f) == CASE f = "loop_a" -> 1
          [] f = "loop_b" -> 2
          [] f = "loop_c" -> 3
          [] f = "loop_d" -> 4

\* The calls of one iteration of main's first and second loop, in order, and
\* their argument.
CallOrder(ph) == IF ph = 1 THEN <<"loop_a", "loop_b", "loop_c", "loop_d">>
                           ELSE <<"loop_a", "loop_c", "loop_b", "loop_d">>
CallArg(ph) == IF ph = 1 THEN ARG_PHASE1 ELSE ARG_PHASE2

\* result += loop_x(n): the call.
AliasCall ==
    /\ prog = "aliasing"
    /\ pc = "al_main"
    /\ i < ITERATIONS
    /\ slot < Len(CallOrder(phase))
    /\ fn' = CallOrder(phase)[slot + 1]
    /\ n' = CallArg(phase)
    /\ sum' = 0
    /\ ci' = 0
    /\ pc' = "fn_loop"
    /\ UNCHANGED <<prog, phase, stores, result, i, slot, j, k, arr, data0, vres,
                   temp, stack, ret, state, a, b, mul_result, arg_a, arg_b>>

\* The end of one iteration of a loop of main: i++.
AliasIterEnd ==
    /\ prog = "aliasing"
    /\ pc = "al_main"
    /\ slot = Len(CallOrder(phase))
    /\ i' = i + 1
    /\ slot' = 0
    /\ UNCHANGED <<prog, phase, pc, stores, result, fn, n, ci, j, k, sum, arr,
                   data0, vres, temp, stack, ret, state, a, b, mul_result,
                   arg_a, arg_b>>

\* The first loop of main is over: the second starts.
AliasPhaseEnd ==
    /\ prog = "aliasing"
    /\ pc = "al_main"
    /\ phase = 1
    /\ slot = 0
    /\ ~(i < ITERATIONS)
    /\ phase' = 2
    /\ i' = 0
    /\ UNCHANGED <<prog, pc, stores, result, slot, fn, n, ci, j, k, sum, arr,
                   data0, vres, temp, stack, ret, state, a, b, mul_result,
                   arg_a, arg_b>>

AliasStoreResult ==
    /\ prog = "aliasing"
    /\ pc = "al_main"
    /\ phase = 2
    /\ slot = 0
    /\ ~(i < ITERATIONS)
    /\ Store(RESULT_ADDR, result)
    /\ pc' = "store_status"
    /\ UNCHANGED <<prog, phase, result, i, slot, fn, n, ci, j, k, sum, arr,
                   data0, vres, temp, stack, ret, state, a, b, mul_result,
                   arg_a, arg_b>>

AliasStoreStatus ==
    /\ prog = "aliasing"
    /\ pc = "store_status"
    /\ Store(STATUS_ADDR, STATUS_PASS)
    /\ pc' = "store_magic"
    /\ UNCHANGED <<prog, phase, result, i, slot, fn, n, ci, j, k, sum, arr,
                   data0, vres, temp, stack, ret, state, a, b, mul_result,
                   arg_a, arg_b>>

AliasStoreMagic ==
    /\ prog = "aliasing"
    /\ pc = "store_magic"
    /\ Store(DONE_ADDR, MAGIC)
    /\ pc' = "halt"
    /\ UNCHANGED <<prog, phase, result, i, slot, fn, n, ci, j, k, sum, arr,
                   data0, vres, temp, stack, ret, state, a, b, mul_result,
                   arg_a, arg_b>>

\* One pass of the for loop of loop_a..loop_d: sum += i * K.
LoopStep ==
    /\ prog \in {"aliasing", "loop"}
    /\ pc = "fn_loop"
    /\ ci < n
    /\ sum' = sum + ci * K(fn)
    /\ ci' = ci + 1
    /\ UNCHANGED <<prog, phase, pc, stores, result, i, slot, fn, n, j, k, arr,
                   data0, vres, temp, stack, ret, state, a, b, mul_result,
                   arg_a, arg_b>>

\* return sum: main adds it to result (the caller of the unit mode keeps it).
LoopReturn ==
    /\ prog \in {"aliasing", "loop"}
    /\ pc = "fn_loop"
    /\ ~(ci < n)
    /\ IF prog = "aliasing"
       THEN /\ result' = result + sum
            /\ slot' = slot + 1
            /\ pc' = "al_main"
       ELSE /\ result' = sum
            /\ pc' = "halt"
            /\ UNCHANGED slot
    /\ UNCHANGED <<prog, phase, stores, i, fn, n, ci, j, k, sum, arr, data0,
                   vres, temp, stack, ret, state, a, b, mul_result, arg_a,
                   arg_b>>

---------------------------------------------------------------------------
(* complex.c *)

\* What one pass of the loop of sequential_branches, func_a, func_b and
\* func_c adds to sum, for loop index x and argument m.
CxBody(f, x, m) ==
    CASE f = "sequential_branches" ->
           (IF x % 2 = 1 THEN 1 ELSE 0)
         + (IF (x \div 2) % 2 = 1 THEN 2 ELSE 0)
         + (IF (x \div 4) % 2 = 1 THEN 4 ELSE 0)
         + (IF (x \div 8) % 2 = 1 THEN 8 ELSE 0)
         + (IF x % 4 = 0 THEN 10 ELSE 0)
         + (IF x % 4 = 1 THEN 20 ELSE 0)
         + (IF x % 4 = 2 THEN 30 ELSE 0)
         + (IF x % 4 = 3 THEN 40 ELSE 0)
      [] f = "func_a" -> IF x < m \div 2 THEN x ELSE 0 - x
      [] f = "func_b" -> IF x >= m \div 2 THEN x ELSE 0 - x
      [] f = "func_c" -> IF x % 4 < 2 THEN x ELSE 0 - x

\* The calls of one iteration of main's third loop.
FuncOrder == <<"func_a", "func_b", "func_c">>

\* Phase 1: result += correlated_loops(): the call.
CxCallCorrelated ==
    /\ prog = "complex"
    /\ pc = "cx_main"
    /\ phase = 1
    /\ fn' = "correlated_loops"
    /\ sum' = 0
    /\ ci' = 0
    /\ pc' = "cl_outer"
    /\ UNCHANGED <<prog, phase, stores, result, i, slot, n, j, k, arr, data0,
                   vres, temp, stack, ret, state, a, b, mul_result, arg_a,
                   arg_b>>

\* correlated_loops: the outer loop enters its first inner loop, or ends and
\* the function returns sum, which main adds to result before its phase 2.
ClOuter ==
    /\ pc = "cl_outer"
    /\ IF ci < OUTER
       THEN /\ j' = 0
            /\ pc' = "cl_j"
            /\ UNCHANGED <<result, phase, i>>
       ELSE /\ result' = result + sum
            /\ phase' = 2
            /\ i' = 0
            /\ pc' = "cx_main"
            /\ UNCHANGED j
    /\ UNCHANGED <<prog, stores, slot, fn, n, ci, k, sum, arr, data0, vres,
                   temp, stack, ret, state, a, b, mul_result, arg_a, arg_b>>

\* The first inner loop: if (j & 1) sum += 1; else sum -= 1; then the second.
ClFirstInner ==
    /\ pc = "cl_j"
    /\ IF j < INNER
       THEN /\ sum' = IF j % 2 = 1 THEN sum + 1 ELSE sum - 1
            /\ j' = j + 1
            /\ UNCHANGED <<k, pc>>
       ELSE /\ k' = 0
            /\ pc' = "cl_k"
            /\ UNCHANGED <<sum, j>>
    /\ UNCHANGED <<prog, phase, stores, result, i, slot, fn, n, ci, arr, data0,
                   vres, temp, stack, ret, state, a, b, mul_result, arg_a,
                   arg_b>>

\* The second inner loop: if (k & 1) sum += 2; else sum -= 2; then i++.
ClSecondInner ==
    /\ pc = "cl_k"
    /\ IF k < INNER
       THEN /\ sum' = IF k % 2 = 1 THEN sum + 2 ELSE sum - 2
            /\ k' = k + 1
            /\ UNCHANGED <<ci, pc>>
       ELSE /\ ci' = ci + 1
            /\ pc' = "cl_outer"
            /\ UNCHANGED <<sum, k>>
    /\ UNCHANGED <<prog, phase, stores, result, i, slot, fn, n, j, arr, data0,
                   vres, temp, stack, ret, state, a, b, mul_result, arg_a,
                   arg_b>>

\* Phase 2: result += sequential_branches(32): the call.
CxCallSequential ==
    /\ prog = "complex"
    /\ pc = "cx_main"
    /\ phase = 2
    /\ i < SEQ_CALLS
    /\ fn' = "sequential_branches"
    /\ n' = SEQ_ARG
    /\ sum' = 0
    /\ ci' = 0
    /\ pc' = "cx_loop"
    /\ UNCHANGED <<prog, phase, stores, result, i, slot, j, k, arr, data0, vres,
                   temp, stack, ret, state, a, b, mul_result, arg_a, arg_b>>

\* The second loop of main is over: the third starts.
CxPhase2End ==
    /\ prog = "complex"
    /\ pc = "cx_main"
    /\ phase = 2
    /\ ~(i < SEQ_CALLS)
    /\ phase' = 3
    /\ i' = 0
    /\ slot' = 0
    /\ UNCHANGED <<prog, pc, stores, result, fn, n, ci, j, k, sum, arr, data0,
                   vres, temp, stack, ret, state, a, b, mul_result, arg_a,
                   arg_b>>

\* Phase 3: result += func_a(8), func_b(8), func_c(8): the calls.
CxCallFunc ==
    /\ prog = "complex"
    /\ pc = "cx_main"
    /\ phase = 3
    /\ i < FUNC_CALLS
    /\ slot < Len(FuncOrder)
    /\ fn' = FuncOrder[slot + 1]
    /\ n' = FUNC_ARG
    /\ sum' = 0
    /\ ci' = 0
    /\ pc' = "cx_loop"
    /\ UNCHANGED <<prog, phase, stores, result, i, slot, j, k, arr, data0, vres,
                   temp, stack, ret, state, a, b, mul_result, arg_a, arg_b>>

\* The end of one iteration of the third loop: i++.
CxIterEnd ==
    /\ prog = "complex"
    /\ pc = "cx_main"
    /\ phase = 3
    /\ slot = Len(FuncOrder)
    /\ i' = i + 1
    /\ slot' = 0
    /\ UNCHANGED <<prog, phase, pc, stores, result, fn, n, ci, j, k, sum, arr,
                   data0, vres, temp, stack, ret, state, a, b, mul_result,
                   arg_a, arg_b>>

\* One pass of the for loop of sequential_branches, func_a, func_b, func_c.
CxStep ==
    /\ pc = "cx_loop"
    /\ ci < n
    /\ sum' = sum + CxBody(fn, ci, n)
    /\ ci' = ci + 1
    /\ UNCHANGED <<prog, phase, pc, stores, result, i, slot, fn, n, j, k, arr,
                   data0, vres, temp, stack, ret, state, a, b, mul_result,
                   arg_a, arg_b>>

\* return sum: main adds it to result; in phase 2 the loop's i++ follows.
CxReturn ==
    /\ pc = "cx_loop"
    /\ ~(ci < n)
    /\ result' = result + sum
    /\ IF phase = 2
       THEN i' = i + 1 /\ UNCHANGED slot
       ELSE slot' = slot + 1 /\ UNCHANGED i
    /\ pc' = "cx_main"
    /\ UNCHANGED <<prog, phase, stores, fn, n, ci, j, k, sum, arr, data0, vres,
                   temp, stack, ret, state, a, b, mul_result, arg_a, arg_b>>

CxStoreResult ==
    /\ prog = "complex"
    /\ pc = "cx_main"
    /\ phase = 3
    /\ slot = 0
    /\ ~(i < FUNC_CALLS)
    /\ Store(RESULT_ADDR, result)
    /\ pc' = "store_status"
    /\ UNCHANGED <<prog, phase, result, i, slot, fn, n, ci, j, k, sum, arr,
                   data0, vres, temp, stack, ret, state, a, b, mul_result,
                   arg_a, arg_b>>

CxStoreStatus ==
    /\ prog = "complex"
    /\ pc = "store_status"
    /\ Store(STATUS_ADDR, STATUS_PASS)
    /\ pc' = "store_magic"
    /\ UNCHANGED <<prog, phase, result, i, slot, fn, n, ci, j, k, sum, arr,
                   data0, vres, temp, stack, ret, state, a, b, mul_result,
                   arg_a, arg_b>>

CxStoreMagic ==
    /\ prog = "complex"
    /\ pc = "store_magic"
    /\ Store(DONE_ADDR, MAGIC)
    /\ pc' = "halt"
    /\ UNCHANGED <<prog, phase, result, i, slot, fn, n, ci, j, k, sum, arr,
                   data0, vres, temp, stack, ret, state, a, b, mul_result,
                   arg_a, arg_b>>

---------------------------------------------------------------------------
(* bubblesort.c *)

\* The values an int array element drawn for the small arrays can have.
Vals == (0 - MaxVal)..MaxVal

\* What a read of arr[idx] can deliver, and arr after arr[idx] = v.  An index
\* outside the array reads whatever lies beside it and writes beside it.
Read(f, idx) == IF idx \in DOMAIN f THEN {f[idx]} ELSE Vals
Write(f, idx, v) == IF idx \in DOMAIN f THEN [f EXCEPT ![idx] = v] ELSE f

\* InnerBound one short: the last pair of each pass is not compared.
InnerBound_Short(m, x) == m - x - 2

\* The inner loop runs while j < n - i - 1.
InnerBound(m, x) == m - x - 1

\* Greater with >=: equal neighbours are exchanged too.
Greater_OrEqual(x, y) == x >= y

\* The exchange condition of bubblesort: arr[j] > arr[j + 1].
Greater(x, y) == x > y

\* The order verify rejects: arr[i] > arr[i + 1].
OutOfOrder(x, y) == x > y

\* bubblesort: for (i = 0; i < n - 1; i++): enter the inner loop, or return
\* to main, which calls verify(data, SIZE).
BsOuter ==
    /\ pc = "bs_outer"
    /\ IF i < n - 1
       THEN /\ j' = 0
            /\ pc' = "bs_inner"
            /\ UNCHANGED i
       ELSE /\ i' = 0
            /\ pc' = "vf_loop"
            /\ UNCHANGED j
    /\ UNCHANGED <<stores, n, arr, vres, prog, phase, result, slot, fn, ci, k,
                   sum, state, a, b, mul_result, arg_a, arg_b, data0, temp,
                   stack, ret>>

\* for (j = 0; j < n - i - 1; j++): the test, and the outer loop's i++.
BsInner ==
    /\ pc = "bs_inner"
    /\ IF j < InnerBound(n, i)
       THEN /\ pc' = "bs_cmp"
            /\ UNCHANGED i
       ELSE /\ i' = i + 1
            /\ pc' = "bs_outer"
    /\ UNCHANGED <<stores, n, j, arr, vres, prog, phase, result, slot, fn, ci,
                   k, sum, state, a, b, mul_result, arg_a, arg_b, data0, temp,
                   stack, ret>>

\* if (arr[j] > arr[j + 1]) exchange them; then j++.
BsCompare ==
    /\ pc = "bs_cmp"
    /\ \E x \in Read(arr, j), y \in Read(arr, j + 1) :
          IF Greater(x, y)
          THEN /\ temp' = <<x>>
               /\ arr' = Write(Write(arr, j, y), j + 1, x)
          ELSE UNCHANGED <<temp, arr>>
    /\ j' = j + 1
    /\ pc' = "bs_inner"
    /\ UNCHANGED <<stores, n, i, vres, prog, phase, result, slot, fn, ci, k,
                   sum, state, a, b, mul_result, arg_a, arg_b, data0, stack,
                   ret>>

\* verify: return 0 at the first arr[i] > arr[i + 1], 1 when there is none.
VerifyStep ==
    /\ pc = "vf_loop"
    /\ IF i < n - 1
       THEN \E x \in Read(arr, i), y \in Read(arr, i + 1) :
               IF OutOfOrder(x, y)
               THEN vres' = 0 /\ pc' = "bs_status" /\ UNCHANGED i
               ELSE i' = i + 1 /\ UNCHANGED <<vres, pc>>
       ELSE vres' = 1 /\ pc' = "bs_status" /\ UNCHANGED i
    /\ UNCHANGED <<stores, n, j, arr, prog, phase, result, slot, fn, ci, k, sum,
                   state, a, b, mul_result, arg_a, arg_b, data0, temp, stack,
                   ret>>

\* BsStoreStatus with the else lost: the failure code is stored after the
\* success code.
BsStoreStatus_NoElse ==
    /\ pc = "bs_status"
    /\ stores' = IF vres # 0
                 THEN Append(Append(stores, <<STATUS_ADDR, STATUS_PASS>>),
                             <<STATUS_ADDR, STATUS_FAIL>>)
                 ELSE Append(stores, <<STATUS_ADDR, STATUS_FAIL>>)
    /\ pc' = "store_magic"
    /\ UNCHANGED <<n, i, j, arr, vres, prog, phase, result, slot, fn, ci, k, sum,
                   state, a, b, mul_result, arg_a, arg_b, data0, temp, stack, ret>>

\* if (verify(data, SIZE)) status = 0x0F; else status = 0x01;
BsStoreStatus ==
    /\ pc = "bs_status"
    /\ Store(STATUS_ADDR, IF vres # 0 THEN STATUS_PASS ELSE STATUS_FAIL)
    /\ pc' = "store_magic"
    /\ UNCHANGED <<n, i, j, arr, vres, prog, phase, result, slot, fn, ci, k,
                   sum, state, a, b, mul_result, arg_a, arg_b, data0, temp,
                   stack, ret>>

BsStoreMagic ==
    /\ prog = "bubblesort"
    /\ pc = "store_magic"
    /\ Store(DONE_ADDR, MAGIC)
    /\ pc' = "halt"
    /\ UNCHANGED <<n, i, j, arr, vres, prog, phase, result, slot, fn, ci, k,
                   sum, state, a, b, mul_result, arg_a, arg_b, data0, temp,
                   stack, ret>>

\* The contents data can start with: every array of at most MaxSize elements
\* over Vals, and MaxSeed + 1 arrays of SIZE elements (descending from the
\* top of the int range to its bottom, and scattered small values).
SeedData(s) ==
    [x \in 0..(SIZE - 1) |->
        IF s = 0
        THEN IF x < SIZE \div 2 THEN MaxInt - x ELSE MinInt + (SIZE - x)
        ELSE (((x + s) * (x + 2 * s + 1) * 7) % (9 + 2 * s)) - (4 + s)]

DataSets ==
    UNION {[0..(m - 1) -> Vals] : m \in 0..MaxSize}
    \cup {SeedData(s) : s \in 0..MaxSeed}

---------------------------------------------------------------------------
(* The runs *)

\* The arguments the unit mode calls mul with.
MulInputs ==
    ((0 - MaxSmall)..MaxSmall)
    \cup {MaxInt - x : x \in 0..MaxSmall}
    \cup {MinInt + x : x \in 0..MaxSmall}
    \cup {255, 32768, 65535, 65536, 65537, 1073741824, 1431655765}

Loops == {"loop_a", "loop_b", "loop_c", "loop_d"}
NoArray == [x \in {} |-> 0]

InitPc(p) == CASE p = "aliasing"   -> "al_main"
               [] p = "bubblesort" -> "bs_outer"
               [] p = "complex"    -> "cx_main"
               [] p = "factorial"  -> "fact_loop"
               [] p = "fibonacci"  -> "fib_run"
               [] p = "pattern"    -> "pat_loop"
               [] p = "mul"        -> "mul_loop"
               [] p = "loop"       -> "fn_loop"

\* main is entered (a unit mode: the function is entered on drawn arguments);
\* nothing has been stored.  factorial(5) and fib(20) stand at their entry.
Init ==
    /\ prog \in Programs \cup UnitModes
    /\ pc = InitPc(prog)
    /\ stores = <<>>
    /\ phase = IF prog \in {"aliasing", "complex"} THEN 1 ELSE 0
    /\ result = IF prog = "factorial" THEN 1 ELSE 0
    /\ i = IF prog = "factorial" THEN 2 ELSE 0
    /\ slot = 0 /\ ci = 0 /\ j = 0 /\ k = 0 /\ sum = 0 /\ state = 0
    /\ fn \in IF prog = "loop" THEN Loops ELSE {"none"}
    /\ arr \in IF prog = "bubblesort" THEN DataSets ELSE {NoArray}
    /\ data0 = arr
    /\ n \in CASE prog = "factorial"  -> {FACT_ARG}
               [] prog = "loop"       -> 0..MaxLoopN
               [] prog = "bubblesort" -> {Cardinality(DOMAIN arr)}
               [] OTHER               -> {0}
    /\ a \in IF prog = "mul" THEN MulInputs ELSE {0}
    /\ b \in IF prog = "mul" THEN MulInputs ELSE {0}
    /\ arg_a = a /\ arg_b = b
    /\ mul_result = 0
    /\ vres = 0
    /\ temp = <<>>
    /\ stack = IF prog = "fibonacci" THEN <<Frame(FIB_ARG, "entry", 0)>> ELSE <<>>
    /\ ret = 0

Next ==
    \/ MulStep \/ MulReturn \/ FactCall
    \/ FactStoreResult \/ FactStoreStatus \/ FactStoreMagic
    \/ FibBase \/ FibCall1 \/ FibCall2 \/ FibReturn
    \/ FibStoreResult \/ FibStoreStatus \/ FibStoreMagic
    \/ PatternAdvance \/ PatternBranch
    \/ PatternStoreResult \/ PatternStoreStatus \/ PatternStoreMagic
    \/ AliasCall \/ AliasIterEnd \/ AliasPhaseEnd \/ LoopStep \/ LoopReturn
    \/ AliasStoreResult \/ AliasStoreStatus \/ AliasStoreMagic
    \/ CxCallCorrelated \/ ClOuter \/ ClFirstInner \/ ClSecondInner
    \/ CxCallSequential \/ CxPhase2End \/ CxCallFunc \/ CxIterEnd
    \/ CxStep \/ CxReturn
    \/ CxStoreResult \/ CxStoreStatus \/ CxStoreMagic
    \/ BsOuter \/ BsInner \/ BsCompare \/ VerifyStep
    \/ BsStoreStatus \/ BsStoreMagic

Spec == Init /\ [][Next]_vars

\* A run is never suspended: there is one thread of control and no wait, so
\* a step that can be taken is taken.
FairSpec == Spec /\ WF_vars(Next)

---------------------------------------------------------------------------
(* What the properties below are stated with *)

\* The places of the stores to addr in the order main made them.
StoresTo(addr) == {x \in 1..Len(stores) : stores[x][1] = addr}
Count(addr) == Cardinality(StoresTo(addr))

\* Every store to an address of later comes after a store to addr.
Before(addr, later) ==
    \A y \in 1..Len(stores) :
        stores[y][1] \in later => \E x \in 1..(y - 1) : stores[x][1] = addr

\* (x * y) mod 2^32 as an int, for any two ints, by long multiplication on
\* 16-bit halves (the low half of y taken a byte at a time, so that no
\* partial product reaches 2^31).
Mul16(x, y) ==
    LET p0 == x * (y % 256)
        p1 == x * (y \div 256)
        low == p0 + (p1 % 256) * 256
    IN  <<(low \div 65536 + p1 \div 256) % 65536, low % 65536>>
MulMod32(x, y) ==
    LET ll == Mul16(Lo16(x), Lo16(y))
        hl == Mul16(Hi16(x), Lo16(y))
        lh == Mul16(Lo16(x), Hi16(y))
    IN  FromHalves((ll[1] + hl[2] + lh[2]) % 65536, ll[2])

\* 0 + 1 + ... + (m - 1).
Tri(m) == (m * (m - 1)) \div 2

\* The Fibonacci numbers from fib(0) = 0, fib(1) = 1 by the recurrence.
\* FibPair(m) is <<fib(m), fib(m + 1)>>.
RECURSIVE FibPair(_)
FibPair(m) == IF m = 0 THEN <<0, 1>>
              ELSE LET p == FibPair(m - 1) IN <<p[2], p[1] + p[2]>>
FibRef(m) == FibPair(m)[1]

\* m! for the small m of factorial.c.
FactRef[m \in 0..(FACT_ARG + 1)] == IF m = 0 THEN 1 ELSE m * FactRef[m - 1]

\* f is non-decreasing over its indices 0..m-1.
Sorted(f, m) == \A x \in 0..(m - 2) : f[x] <= f[x + 1]

\* f and g hold the same values the same number of times.
SameBag(f, g) ==
    /\ DOMAIN f = DOMAIN g
    /\ \A v \in {f[x] : x \in DOMAIN f} \cup {g[x] : x \in DOMAIN g} :
          Cardinality({x \in DOMAIN f : f[x] = v})
              = Cardinality({x \in DOMAIN g : g[x] = v})

---------------------------------------------------------------------------
(* The completion protocol *)

\* C1: in each of the six programs 0x104 is stored to at most once while
\* main runs and exactly once by its end, and so is 0x100, with the value
\* 0xCAFEF00D; the store to 0x104 comes before the store to 0x100, and no
\* store follows the store to 0x100.
C1_SignalOnceInOrder ==
    prog \in Programs =>
        /\ Count(STATUS_ADDR) <= 1
        /\ Count(DONE_ADDR) <= 1
        /\ \A x \in StoresTo(DONE_ADDR) :
              stores[x][2] = MAGIC /\ x = Len(stores)
        /\ Before(STATUS_ADDR, {DONE_ADDR})
        /\ pc = "halt" => Count(STATUS_ADDR) = 1 /\ Count(DONE_ADDR) = 1

\* bubblesort.c has run to its end: status, then the magic word.
C1_Witness ==
    /\ prog = "bubblesort"
    /\ pc = "halt"
    /\ n = SIZE
    /\ stores = <<<<STATUS_ADDR, STATUS_PASS>>, <<DONE_ADDR, MAGIC>>>>

---------------------------------------------------------------------------
(* pattern.c *)

\* C4 as claimed: the value pattern.c stores to 0x4 is 34.
C4_PatternResultIs34 ==
    prog = "pattern" => \A x \in StoresTo(RESULT_ADDR) : stores[x][2] = 34

\* C8: whenever the branch if (state != 0) is evaluated, in iteration i,
\* state is in {0, 1, 2} and is (i + 1) mod 3, so the branch is not taken
\* exactly when i mod 3 = 2 (Taken, Taken, Not-Taken from i = 0 on); result
\* counts the taken outcomes so far; i never passes 100.
C8_TakenTakenNotTaken ==
    prog = "pattern" =>
        /\ i \in 0..PATTERN_ITERS
        /\ state \in {0, 1, 2}
        /\ pc = "pat_branch" =>
              /\ i < PATTERN_ITERS
              /\ state = (i + 1) % 3
              /\ (state # 0) <=> (i % 3 # 2)
        /\ pc = "pat_loop" => state = i % 3
        /\ pc \in {"pat_branch", "pat_loop"} =>
              result = Cardinality({x \in 0..(i - 1) : x % 3 # 2})

\* The branch is about to be evaluated in iteration 98, where it is not taken,
\* after 66 taken outcomes.
C8_Witness ==
    /\ prog = "pattern"
    /\ pc = "pat_branch"
    /\ i = 98
    /\ state = 0
    /\ result = 66

---------------------------------------------------------------------------
(* bubblesort.c *)

\* The status bubblesort.c has stored, if any.
StatusStored == {stores[x][2] : x \in StoresTo(STATUS_ADDR)}

\* C3: for every initial content of the array, once bubblesort has returned
\* the array is non-decreasing, and the status stored to 0x104 is 0x0F if
\* the array is non-decreasing and 0x01 otherwise.
C3_SortedAndStatus ==
    prog = "bubblesort" =>
        /\ pc \in {"vf_loop", "bs_status", "store_magic", "halt"} => Sorted(arr, n)
        /\ \A v \in StatusStored :
              v = IF Sorted(arr, n) THEN STATUS_PASS ELSE STATUS_FAIL
        /\ pc = "halt" => StatusStored # {}

\* The run on the descending array of SIZE elements has ended with the
\* success status.
C3_Witness ==
    /\ prog = "bubblesort"
    /\ pc = "halt"
    /\ data0 = SeedData(0)
    /\ ~Sorted(data0, n)
    /\ Sorted(arr, n)
    /\ StatusStored = {STATUS_PASS}

\* C10 (in every state): the array is a permutation of the initial array,
\* and the two elements bubblesort compares lie inside it.
C10_State ==
    prog = "bubblesort" =>
        /\ SameBag(arr, data0)
        /\ DOMAIN arr = 0..(n - 1)
        /\ pc = "bs_cmp" => 0 <= j /\ j + 1 <= n - 1

\* C10 (in every step): the array changes only by the exchange of arr[j] and
\* arr[j + 1] when arr[j] > arr[j + 1], and temp is assigned (an exchange is
\* made) only then: equal elements are not exchanged.
C10_Step ==
    (arr' # arr \/ temp' # temp) =>
        /\ pc = "bs_cmp"
        /\ j \in DOMAIN arr /\ j + 1 \in DOMAIN arr
        /\ arr[j] > arr[j + 1]
        /\ arr' = [arr EXCEPT ![j] = arr[j + 1], ![j + 1] = arr[j]]
        /\ temp' = <<arr[j]>>

\* C10: bubblesort changes the array only by exchanging two adjacent
\* elements arr[j] > arr[j + 1] with 0 <= j and j + 1 <= n - 1; the array is
\* always a permutation of the input, no index outside 0..n-1 is used, and
\* two equal elements are never exchanged.
C10_AdjacentExchangesOnly == [](C10_State) /\ [][C10_Step]_vars

\* bubblesort has just exchanged two elements of an array that holds a value
\* twice, and the array differs from the initial one.
C10_Witness ==
    /\ prog = "bubblesort"
    /\ pc = "bs_inner"
    /\ j >= 1
    /\ temp # <<>>
    /\ arr # data0
    /\ arr[j - 1] < arr[j]
    /\ temp = <<arr[j]>>
    /\ \E x \in DOMAIN arr, y \in DOMAIN arr : x # y /\ arr[x] = arr[y]

---------------------------------------------------------------------------
(* fibonacci.c *)

\* The argument of the call of fib that has just returned ret.
ReturnedArg ==
    IF stack = <<>> THEN FIB_ARG
    ELSE IF Top(stack).st = "call1" THEN Top(stack).n - 1 ELSE Top(stack).n - 2

\* C5 (in every state): every call fib(m) returns the m-th Fibonacci number
\* (fib(0) = 0, fib(1) = 1, fib(m) = fib(m - 1) + fib(m - 2)), the value a
\* frame keeps for fib(n - 1) is that number, the arguments stay in
\* 0..20, and the value stored to 0x4 is 6765.
C5_State ==
    prog = "fibonacci" =>
        /\ \A x \in 1..Len(stack) :
              /\ stack[x].n \in 0..FIB_ARG
              /\ stack[x].st # "entry" => stack[x].n >= 2
              /\ stack[x].st = "call2" => stack[x].t = FibRef(stack[x].n - 1)
        /\ pc = "fib_ret" => ret = FibRef(ReturnedArg)
        /\ \A x \in StoresTo(RESULT_ADDR) : stores[x][2] = 6765

\* C5: fib follows fib(0) = 0, fib(1) = 1 and the recurrence, the recursion
\* for fib(20) terminates, and the value stored to 0x4 is 6765.
C5_FibTerminatesWith6765 ==
    /\ [](C5_State)
    /\ [](prog = "fibonacci" =>
            <>(pc = "halt" /\ {stores[x][2] : x \in StoresTo(RESULT_ADDR)} = {6765}))

\* fib(1) has just returned 1 to the frame of fib(2), itself called by fib(3).
C5_Witness ==
    /\ prog = "fibonacci"
    /\ pc = "fib_ret"
    /\ Len(stack) >= 2
    /\ Top(stack) = Frame(2, "call1", 0)
    /\ stack[Len(stack) - 1].n = 3
    /\ ret = 1

---------------------------------------------------------------------------
(* factorial.c *)

\* C9 (in every state): at the head of mul's loop, for b0 >= 0,
\* result + a * b = a0 * b0 modulo 2^32, and b stays in 0..b0; when the loop
\* is left result is a0 * b0 modulo 2^32; for b0 <= 0 the body never runs and
\* the result is 0.
C9_State ==
    prog \in {"mul", "factorial"} =>
        /\ arg_b >= 0 =>
              /\ b \in 0..arg_b
              /\ Add32(mul_result, MulMod32(a, b)) = MulMod32(arg_a, arg_b)
              /\ (pc = "mul_loop" /\ ~(b > 0)) \/ pc = "halt"
                    => mul_result = MulMod32(arg_a, arg_b)
        /\ arg_b <= 0 => a = arg_a /\ b = arg_b /\ mul_result = 0

\* C9: mul terminates on every input; for every a and every b >= 0 it
\* returns a * b modulo 2^32, keeping result + a * b = a0 * b0 (mod 2^32) at
\* the head of each iteration; for b <= 0 the body never runs and it
\* returns 0.
C9_MulComputesProduct ==
    /\ [](C9_State)
    /\ [](pc = "mul_loop" => <>(pc # "mul_loop"))

\* mul(-2, 2^31 - 1) has returned 2, which is -2 * (2^31 - 1) modulo 2^32.
C9_Witness ==
    /\ prog = "mul"
    /\ pc = "halt"
    /\ arg_a = 0 - 2
    /\ arg_b = MaxInt
    /\ mul_result = 2

\* C6: at the head of factorial's loop result is (i - 1)!, with i in 2..6;
\* every call of mul is mul(result, i) and returns result * i; the value
\* stored to 0x4 is 120.
C6_FactorialIs120 ==
    prog = "factorial" =>
        /\ n = FACT_ARG
        /\ i \in 2..(FACT_ARG + 1)
        /\ pc = "fact_loop" => result = FactRef[i - 1]
        /\ pc = "mul_loop" =>
              /\ arg_a = result /\ arg_b = i
              /\ ~(b > 0) => mul_result = result * i
        /\ \A x \in StoresTo(RESULT_ADDR) : stores[x][2] = 120 /\ i = FACT_ARG + 1
        /\ pc = "halt" => Count(RESULT_ADDR) = 1

\* factorial.c has run to its end and has stored 120 to 0x4.
C6_Witness ==
    /\ prog = "factorial"
    /\ pc = "halt"
    /\ result = 120
    /\ stores[1] = <<RESULT_ADDR, 120>>

---------------------------------------------------------------------------
(* aliasing.c *)

\* The constants expected of the four functions.
ClaimK == [loop_a |-> 1, loop_b |-> 2, loop_c |-> 3, loop_d |-> 4]

\* What the calls main has made in the running iteration have returned, and
\* what the four calls of one iteration return together, in any order.
PartOfIteration ==
    LET done == {x \in 1..slot : x <= Len(CallOrder(phase))}
        RECURSIVE Total(_)
        Total(S) == IF S = {} THEN 0
                    ELSE LET x == CHOOSE y \in S : TRUE
                         IN  ClaimK[CallOrder(phase)[x]] * Tri(CallArg(phase))
                             + Total(S \ {x})
    IN  Total(done)
WholeIteration(m) == (1 + 2 + 3 + 4) * Tri(m)

\* C7: loop_a..loop_d return k * (0 + 1 + ... + (n - 1)) for k = 1..4; each
\* iteration of main's first loop (order A, B, C, D) adds (1+2+3+4) * 45 and
\* each iteration of its second (order A, C, B, D) adds (1+2+3+4) * 28, the
\* same as in the other order; the value stored to 0x4 is 73000.
C7_AliasingResult ==
    /\ prog \in {"aliasing", "loop"} /\ pc = "fn_loop" =>
          /\ ci \in 0..n
          /\ sum = ClaimK[fn] * Tri(ci)
    /\ prog = "loop" /\ pc = "halt" => result = ClaimK[fn] * Tri(n)
    /\ prog = "aliasing" =>
          /\ pc = "fn_loop" => fn = CallOrder(phase)[slot + 1] /\ n = CallArg(phase)
          /\ pc \in {"al_main", "fn_loop"} =>
                result = (IF phase = 1 THEN 0
                          ELSE ITERATIONS * WholeIteration(ARG_PHASE1))
                         + i * WholeIteration(CallArg(phase))
                         + PartOfIteration
          /\ \A x \in StoresTo(RESULT_ADDR) :
                /\ stores[x][2] = 73000
                /\ stores[x][2] = 100 * (1 + 2 + 3 + 4) * 45 + 100 * (1 + 2 + 3 + 4) * 28
          /\ pc = "halt" => Count(RESULT_ADDR) = 1

\* In the second loop of main, after loop_a and loop_c (and before loop_b)
\* of iteration 7.
C7_Witness ==
    /\ prog = "aliasing"
    /\ pc = "al_main"
    /\ phase = 2
    /\ i = 7
    /\ slot = 2
    /\ fn = "loop_c"
    /\ result = 45000 + 7 * 280 + 28 + 84

===========================================================================
